---------------------------- MODULE Spec2Model ----------------------------
(***************************************************************************)
(* A model of src/extension.ts of git-switcher: the stored list of users   *)
(* ("git-switcher.users" in the configuration store), getCurrentUser,      *)
(* which probes the configured git identity and registers it, and setUser, *)
(* which writes an identity to the git configuration and registers it.     *)
(*                                                                         *)
(* A string is a sequence of one-character strings, so that trim and       *)
(* split are computed, not assumed.  Every await of the source is a        *)
(* separate step of the task that runs the function.                       *)
(***************************************************************************)
EXTENDS Naturals, Sequences, FiniteSets

\* ------------------------------------------------------------------ bounds

\* At most this many calls of getCurrentUser / setUser are started in a run.
MaxOps == 4

\* At most this many calls are started in a run whose calls overlap.
MaxOverlapOps == 3

\* ------------------------------------------------------------------ values

NL == "\n"
Whitespace == {" ", "\t", NL}

\* JavaScript's undefined (also what reading an absent property gives).
UNDEF == <<"undefined">>
\* A git configuration key that has no value.
UNSET == <<"unset">>

EmptyUser == [name |-> <<>>, email |-> <<>>]
\* setUser's result when it returns nothing.
NoUser == [name |-> UNDEF, email |-> UNDEF]

Alice == [name |-> <<"A">>, email |-> <<"a">>]
Alice2 == [name |-> <<"A">>, email |-> <<"b">>]
Bob == [name |-> <<"B">>, email |-> <<"b">>]

\* What the "Add new user" branch of the setup command can pass to setUser:
\* both input boxes filled in.
NewUsers == {Alice, Alice2, Bob}

NoConfig == [name |-> UNSET, email |-> UNSET]
\* The git configurations a run starts from.
InitGlobalConfigs == {NoConfig, Alice}

Tasks == {1, 2}

Range(s) == {s[i] : i \in 1..Len(s)}

\* ------------------------------------------------------------ pure helpers

RECURSIVE TrimStart(_)
TrimStart(s) ==
  IF s # <<>> /\ Head(s) \in Whitespace THEN TrimStart(Tail(s)) ELSE s

RECURSIVE TrimEnd(_)
TrimEnd(s) ==
  IF s # <<>> /\ s[Len(s)] \in Whitespace
    THEN TrimEnd(SubSeq(s, 1, Len(s) - 1))
    ELSE s

\* String.prototype.trim
Trim(s) == TrimEnd(TrimStart(s))

\* String.prototype.split with a one-character separator: the pieces between
\* the separators, one piece (the whole string) when there is none.
RECURSIVE SplitFrom(_, _, _, _)
SplitFrom(s, sep, piece, acc) ==
  IF s = <<>> THEN Append(acc, piece)
  ELSE IF Head(s) = sep THEN SplitFrom(Tail(s), sep, <<>>, Append(acc, piece))
  ELSE SplitFrom(Tail(s), sep, Append(piece, Head(s)), acc)

Split(s, sep) == SplitFrom(s, sep, <<>>, <<>>)

\* const [name, email] = result.split("\n"): a missing element is undefined.
ParseUser(result) ==
  LET parts == Split(result, NL)
  IN  [name |-> parts[1],
       email |-> IF Len(parts) >= 2 THEN parts[2] ELSE UNDEF]

\* find looking at the first entry only.
FindUserFirstOnly(list, x) ==
  Len(list) >= 1 /\ list[1].name = x.name /\ list[1].email = x.email

\* find matching on the name alone.
FindUserByName(list, x) ==
  \E i \in 1..Len(list) : list[i].name = x.name

\* find comparing the stored email with the name looked for.
FindUserEmailTypo(list, x) ==
  \E i \in 1..Len(list) : list[i].name = x.name /\ list[i].email = x.name

\* usersList.find(u => u.name === x.name && u.email === x.email) is defined
FindUser(list, x) ==
  \E i \in 1..Len(list) : list[i].name = x.name /\ list[i].email = x.email


\* ------------------------------------------------------------------- state

VARIABLES
  users,       \* the "users" value of the git-switcher configuration
  workspace,   \* vscode.workspace.workspaceFolders has a first folder
  isRepo,      \* that folder is inside a git work tree
  gitLocal,    \* user.name / user.email of the repository's configuration
  gitGlobal,   \* user.name / user.email of the global configuration
  frame,       \* per task: the locals of the running getCurrentUser / setUser
  returned,    \* the users that calls have returned so far
  applied,     \* the setup command's result: what the last setUser returned
  started      \* number of calls started so far

vars ==
  <<users, workspace, isRepo, gitLocal, gitGlobal, frame, returned, applied,
    started>>

env == <<workspace, isRepo>>

\* The locals of a call that has not run any statement yet.
IdleFrame ==
  [pc |-> "idle",              \* idle, exec, probe, write, update, done
   op |-> "none",              \* getCurrentUser or setUser
   user |-> EmptyUser,         \* setUser's parameter
   global |-> FALSE,           \* setUser's parameter
   currentUser |-> EmptyUser,  \* getCurrentUser's local
   isRepoInitialized |-> FALSE,
   result |-> <<>>,            \* the trimmed output of the read command
   usersList |-> <<>>,         \* the list handed to update
   ret |-> NoUser,             \* the value the promise resolved with
   outcome |-> "pending",      \* pending, returned, rejected
   notices |-> <<>>,           \* messages shown by vscode.window.show...Message
   calls |-> <<>>,             \* commands and updates issued, with their status
   before |-> <<>>]            \* the stored users when the call started

Call(cmd) == [cmd |-> cmd, status |-> "running"]

\* The last issued call completes with the given status.
Complete(calls, status) ==
  [calls EXCEPT ![Len(calls)] = [@ EXCEPT !.status = status]]

Issued(t, cmd) == \E i \in 1..Len(frame[t].calls) : frame[t].calls[i].cmd = cmd

StatusOf(t, cmd) ==
  LET is == {i \in 1..Len(frame[t].calls) : frame[t].calls[i].cmd = cmd}
  IN  IF is = {} THEN "none" ELSE frame[t].calls[CHOOSE i \in is : TRUE].status

\* getUsersList: the stored value, an empty list when nothing is stored.
getUsersList == users

\* ------------------------------------------------------- the git commands

\* The value git config prints for a key when run in the directory the read
\* command runs in: the workspace folder if there is one (the repository's
\* value wins over the global one there), else the process's own directory,
\* taken to be outside every repository.
ConfigValue(key) ==
  IF workspace /\ isRepo /\ gitLocal[key] # UNSET
    THEN gitLocal[key]
    ELSE gitGlobal[key]

\* git config user.name && git config user.email: each prints the value and
\* a newline, and exits non-zero, stopping the chain, when the key is unset.
ReadFails == ConfigValue("name") = UNSET \/ ConfigValue("email") = UNSET

ReadStdout ==
  IF ConfigValue("name") = UNSET THEN <<>>
  ELSE IF ConfigValue("email") = UNSET THEN ConfigValue("name") \o <<NL>>
  ELSE ConfigValue("name") \o <<NL>> \o ConfigValue("email") \o <<NL>>

\* git config [--global] user.name N && git config [--global] user.email E,
\* ending "ok", "err-name" (the first command failed, nothing was written)
\* or "err-email" (the name was written, the second command failed).
WriteOutcomes == {"ok", "err-name", "err-email"}

Written(cfg, u, how) ==
  IF how = "ok" THEN [name |-> u.name, email |-> u.email]
  ELSE IF how = "err-email" THEN [cfg EXCEPT !.name = u.name]
  ELSE cfg

\* ------------------------------------------------------------------- Init

Init ==
  /\ users = <<>>
  /\ workspace \in BOOLEAN
  /\ isRepo \in BOOLEAN
  /\ gitLocal = NoConfig
  /\ gitGlobal \in InitGlobalConfigs
  /\ frame = [t \in Tasks |-> IdleFrame]
  /\ returned = {}
  /\ applied = NoUser
  /\ started = 0

\* return currentUser (line 52) and return user (line 107): what the step
\* just taken by task t returned, if it returned a user.
Returns(t) ==
  returned' = IF frame'[t].pc = "done" /\ frame'[t].ret # NoUser
                THEN returned \cup {frame'[t].ret}
                ELSE returned

\* const result = await setUser(...) (lines 186 and 219): nothing while a
\* setUser is in flight, then what it returned; getCurrentUser leaves it.
Applies(t) ==
  applied' = IF frame'[t].op = "setUser"
               THEN IF frame'[t].pc = "done" THEN frame'[t].ret ELSE NoUser
               ELSE applied

\* A task can begin a call when it runs none.
Free(t) == frame[t].pc \in {"idle", "done"}

\* Calls run one at a time: a call begins only when no other is in flight.
NoneRunning == \A t \in Tasks : Free(t)

\* --------------------------------------------------------- getCurrentUser

\* Lines 13-27: the warning when no folder is open, and the read command is
\* started.
GetCurrentUserCall(t) ==
  /\ Free(t)
  /\ started < MaxOps
  /\ started' = started + 1
  /\ frame' = [frame EXCEPT ![t] =
       [IdleFrame EXCEPT
          !.pc = "exec",
          !.op = "getCurrentUser",
          !.notices = IF workspace THEN <<>>
                      ELSE <<"No workspace folder found, trying to get global user">>,
          !.calls = <<Call("read")>>,
          !.before = users]]
  /\ Returns(t)
  /\ Applies(t)
  /\ UNCHANGED <<users, env, gitLocal, gitGlobal>>

\* The parse applied to the failed command's empty output.
ProbedUserParsedAnyway(err, result) == ParseUser(result)

\* Lines 36-38 and the catch of 39-41: the user the call goes on with.
ProbedUser(err, result) ==
  IF err THEN EmptyUser ELSE ParseUser(result)

\* Lines 27-50: the read command's callback, the parse or the catch, and the
\* lookup in the stored list; an unseen user is pushed and update is called.
GetCurrentUserExec(t) ==
  /\ frame[t].pc = "exec"
  /\ \E spawnErr \in BOOLEAN :
       LET err == spawnErr \/ ReadFails
           result == IF err THEN <<>> ELSE Trim(ReadStdout)
           currentUser == ProbedUser(err, result)
           usersList == getUsersList
           notices == IF err
                        THEN Append(frame[t].notices, "Error getting current user")
                        ELSE frame[t].notices
           calls == Complete(frame[t].calls, IF err THEN "err" ELSE "ok")
       IN  frame' = [frame EXCEPT ![t] =
             IF FindUser(usersList, currentUser)
               THEN [@ EXCEPT !.pc = "done",
                              !.result = result,
                              !.currentUser = currentUser,
                              !.notices = notices,
                              !.calls = calls,
                              !.ret = currentUser,
                              !.outcome = "returned"]
               ELSE [@ EXCEPT !.pc = "update",
                              !.result = result,
                              !.currentUser = currentUser,
                              !.notices = notices,
                              !.calls = Append(calls, Call("update")),
                              !.usersList = Append(usersList, currentUser)]]
  /\ Returns(t)
  /\ Applies(t)
  /\ UNCHANGED <<users, env, gitLocal, gitGlobal, started>>

\* Lines 48-52: update settles.  It is awaited outside the try block, so a
\* rejection rejects getCurrentUser's own promise.
GetCurrentUserUpdate(t) ==
  /\ frame[t].pc = "update"
  /\ frame[t].op = "getCurrentUser"
  /\ \E saved \in BOOLEAN :
       IF saved
         THEN /\ users' = frame[t].usersList
              /\ frame' = [frame EXCEPT ![t] =
                   [@ EXCEPT !.pc = "done",
                             !.calls = Complete(@, "ok"),
                             !.ret = frame[t].currentUser,
                             !.outcome = "returned"]]
         ELSE /\ users' = users
              /\ frame' = [frame EXCEPT ![t] =
                   [@ EXCEPT !.pc = "done",
                             !.calls = Complete(@, "err"),
                             !.outcome = "rejected"]]
  /\ Returns(t)
  /\ Applies(t)
  /\ UNCHANGED <<env, gitLocal, gitGlobal, started>>

\* ----------------------------------------------------------------- setUser

\* Lines 200-203: the user built from a picked entry of the list
\* (description || "").
Picked(u) ==
  [name |-> u.name, email |-> IF u.email = UNDEF THEN <<>> ELSE u.email]

\* Lines 142-226: the users the setup command can call setUser with.
Choices == NewUsers \cup {Picked(u) : u \in Range(users)}

\* The folder check left out.
NoWorkspaceFolderUnchecked == FALSE

\* Line 58: !workspaceFolders || workspaceFolders.length === 0
NoWorkspaceFolder == ~workspace

\* The repository check applied to every scope.
RepoCheckFailsAnyScope(isRepoInitialized, global) == ~isRepoInitialized

\* The repository check with the scope test inverted.
RepoCheckFailsInverted(isRepoInitialized, global) == ~isRepoInitialized /\ global

\* Line 75: !isRepoInitialized && !global
RepoCheckFails(isRepoInitialized, global) == ~isRepoInitialized /\ ~global

\* The scope flag left out whatever the parameter.
ConfigScopeNoFlag(global) == ""

\* Line 82: const configScope = global ? "--global" : ""
ConfigScope(global) == IF global THEN "--global" ELSE ""

\* The write command's error ignored.
WriteRejectsNever(how) == FALSE

\* Only a failure of the first command noticed.
WriteRejectsFirstOnly(how) == how = "err-name"

\* The two commands chained with ; so that only the last one's exit counts.
WriteRejectsLastOnly(how) == how = "err-email"

\* Lines 87-93: the write command's callback rejects on any error.
WriteRejects(how) == how # "ok"

\* Lines 57-66: without a folder the call ends with a message; else the
\* repository probe is started.
SetUserCall(t) ==
  /\ Free(t)
  /\ started < MaxOps
  /\ started' = started + 1
  /\ \E user \in Choices, global \in BOOLEAN :
       frame' = [frame EXCEPT ![t] =
         IF NoWorkspaceFolder
           THEN [IdleFrame EXCEPT
                   !.pc = "done",
                   !.op = "setUser",
                   !.user = user,
                   !.global = global,
                   !.notices = <<"No workspace folder found">>,
                   !.outcome = "returned",
                   !.before = users]
           ELSE [IdleFrame EXCEPT
                   !.pc = "probe",
                   !.op = "setUser",
                   !.user = user,
                   !.global = global,
                   !.calls = <<Call("rev-parse")>>,
                   !.before = users]]
  /\ Returns(t)
  /\ Applies(t)
  /\ UNCHANGED <<users, env, gitLocal, gitGlobal>>

\* Lines 66-85: the probe's callback (any error means false), the scope
\* check, and the write command is started.
SetUserProbe(t) ==
  /\ frame[t].pc = "probe"
  /\ \E spawnErr \in BOOLEAN :
       LET isRepoInitialized == isRepo /\ ~spawnErr
           calls == Complete(frame[t].calls, IF isRepoInitialized THEN "ok" ELSE "err")
       IN  frame' = [frame EXCEPT ![t] =
             IF RepoCheckFails(isRepoInitialized, frame[t].global)
               THEN [@ EXCEPT
                       !.pc = "done",
                       !.isRepoInitialized = isRepoInitialized,
                       !.calls = calls,
                       !.notices = Append(@,
                          "Git repository not initialized. Please initialize a repository or set the user globally."),
                       !.outcome = "returned"]
               ELSE [@ EXCEPT
                       !.pc = "write",
                       !.isRepoInitialized = isRepoInitialized,
                       !.calls = Append(calls, Call("write"))]]
  /\ Returns(t)
  /\ Applies(t)
  /\ UNCHANGED <<users, env, gitLocal, gitGlobal, started>>

\* Lines 84-109: the write command runs and its callback settles the await;
\* on success the user is looked up, pushed if unseen, and update is called.
SetUserWrite(t) ==
  /\ frame[t].pc = "write"
  /\ \E how \in WriteOutcomes :
       \* outside a repository only --global has a file to write to
       /\ (ConfigScope(frame[t].global) # "--global" /\ ~isRepo) => how = "err-name"
       /\ IF ConfigScope(frame[t].global) = "--global"
            THEN /\ gitGlobal' = Written(gitGlobal, frame[t].user, how)
                 /\ gitLocal' = gitLocal
            ELSE /\ gitLocal' = Written(gitLocal, frame[t].user, how)
                 /\ gitGlobal' = gitGlobal
       /\ LET calls == Complete(frame[t].calls, how)
              usersList == getUsersList
          IN  frame' = [frame EXCEPT ![t] =
                IF WriteRejects(how)
                  THEN [@ EXCEPT
                          !.pc = "done",
                          !.calls = calls,
                          !.notices = Append(@, "Error setting current user"),
                          !.outcome = "returned"]
                  ELSE IF FindUser(usersList, frame[t].user)
                  THEN [@ EXCEPT
                          !.pc = "done",
                          !.calls = calls,
                          !.ret = frame[t].user,
                          !.outcome = "returned"]
                  ELSE [@ EXCEPT
                          !.pc = "update",
                          !.calls = Append(calls, Call("update")),
                          !.usersList = Append(usersList, frame[t].user)]]
  /\ Returns(t)
  /\ Applies(t)
  /\ UNCHANGED <<users, env, started>>

\* Lines 103-110: update settles inside the try block: a rejection is caught
\* and shown, and setUser returns nothing.
SetUserUpdate(t) ==
  /\ frame[t].pc = "update"
  /\ frame[t].op = "setUser"
  /\ \E saved \in BOOLEAN :
       IF saved
         THEN /\ users' = frame[t].usersList
              /\ frame' = [frame EXCEPT ![t] =
                   [@ EXCEPT !.pc = "done",
                             !.calls = Complete(@, "ok"),
                             !.ret = frame[t].user,
                             !.outcome = "returned"]]
         ELSE /\ users' = users
              /\ frame' = [frame EXCEPT ![t] =
                   [@ EXCEPT !.pc = "done",
                             !.calls = Complete(@, "err"),
                             !.notices = Append(@, "Error setting current user"),
                             !.outcome = "returned"]]
  /\ Returns(t)
  /\ Applies(t)
  /\ UNCHANGED <<env, gitLocal, gitGlobal, started>>

\* ---------------------------------------------------------- specifications

Step(t) ==
  \/ GetCurrentUserExec(t)
  \/ GetCurrentUserUpdate(t)
  \/ SetUserProbe(t)
  \/ SetUserWrite(t)
  \/ SetUserUpdate(t)

\* Calls run one at a time, each to its end before the next begins.
Next ==
  \/ NoneRunning /\ GetCurrentUserCall(1)
  \/ NoneRunning /\ SetUserCall(1)
  \/ Step(1)

Spec == Init /\ [][Next]_vars

\* Calls overlap: activate starts getCurrentUser without awaiting it, and the
\* setup command calls setUser whatever else is in flight.
NextOverlap ==
  \/ started < MaxOverlapOps /\ GetCurrentUserCall(1)
  \/ \E t \in Tasks : started < MaxOverlapOps /\ SetUserCall(t)
  \/ \E t \in Tasks : Step(t)

SpecOverlap == Init /\ [][NextOverlap]_vars

\* ------------------------------------------------------------------ claims

Done(t) == frame[t].pc = "done"

IsGet(t) == frame[t].op = "getCurrentUser"
IsSet(t) == frame[t].op = "setUser"

\* How many entries of the list equal x.
Count(list, x) == Cardinality({i \in 1..Len(list) : list[i] = x})

\* The user a call registers, once it has reached its registration step
\* (getCurrentUser after the read command, setUser after a successful write).
Registers(t) ==
  \/ IsGet(t) /\ StatusOf(t, "read") \in {"ok", "err"}
  \/ IsSet(t) /\ StatusOf(t, "write") = "ok"

Identity(t) == IF IsGet(t) THEN frame[t].currentUser ELSE frame[t].user

\* C1. Uniqueness: the stored users list never holds two entries with the
\* same name and the same email.
C1_Uniqueness ==
  \A i, j \in 1..Len(users) :
    (users[i].name = users[j].name /\ users[i].email = users[j].email) => i = j

\* A call has registered a user that an earlier call had stored, beside
\* another stored user.
C1_Witness ==
  \E t \in Tasks :
    /\ Done(t) /\ Registers(t)
    /\ Identity(t) \in Range(frame[t].before)
    /\ Len(users) >= 2

\* C2. Scope validation: setUser with global = false, whose repository probe
\* reported false, returns nothing, never issues the write command and
\* leaves the stored users as they were.
C2_ScopeValidation ==
  \A t \in Tasks :
    (IsSet(t) /\ ~frame[t].global /\ StatusOf(t, "rev-parse") = "err") =>
      /\ Done(t)
      /\ frame[t].ret = NoUser
      /\ ~Issued(t, "write")
      /\ ~Issued(t, "update")
      /\ users = frame[t].before
      /\ Len(frame[t].notices) = 1

\* A local setUser was rejected outside a repository while users are stored.
C2_Witness ==
  \E t \in Tasks :
    /\ IsSet(t) /\ ~frame[t].global /\ StatusOf(t, "rev-parse") = "err"
    /\ ~isRepo
    /\ users # <<>>

\* C3 as stated: once a call is over, the user its probe reported, or the
\* user its write command applied, is stored exactly once.
C3_AsStated ==
  \A t \in Tasks :
    Done(t) =>
      /\ (IsGet(t) /\ StatusOf(t, "read") = "ok") =>
            Count(users, frame[t].currentUser) = 1
      /\ (IsSet(t) /\ StatusOf(t, "write") = "ok") =>
            Count(users, frame[t].user) = 1

\* C3, amended. Registration completeness: with calls run one at a time,
\* every user that a call returned (the probe reported it or the write
\* applied it, and the save, where one was needed, did not fail) is stored
\* exactly once; a call whose save failed stores nothing.
C3_RegistrationComplete ==
  /\ \A u \in returned : Count(users, u) = 1
  /\ \A t \in Tasks :
       (Done(t) /\ StatusOf(t, "update") = "err") => users = frame[t].before

\* Scenario 1: the store was empty, the probe reported Alice, and the store
\* is exactly [Alice].
C3_Witness ==
  \E t \in Tasks :
    /\ Done(t) /\ IsGet(t) /\ StatusOf(t, "read") = "ok"
    /\ frame[t].before = <<>>
    /\ frame[t].currentUser = Alice
    /\ users = <<Alice>>
    /\ returned = {Alice}

\* C4. No-workspace rejection: without a workspace folder setUser, local or
\* global, is over at once: it returns nothing, has issued no command and no
\* update, and every store is as it was.
C4_NoWorkspaceRejection ==
  \A t \in Tasks :
    (IsSet(t) /\ ~workspace) =>
      /\ Done(t)
      /\ frame[t].ret = NoUser
      /\ frame[t].calls = <<>>
      /\ users = frame[t].before
      /\ frame[t].notices = <<"No workspace folder found">>

\* A global setUser was rejected for want of a workspace folder.
C4_Witness ==
  \E t \in Tasks : IsSet(t) /\ ~workspace /\ frame[t].global /\ Done(t)

\* What registering x into the list before gives.
Registered(before, x) ==
  IF x \in Range(before) THEN before ELSE Append(before, x)

\* C5 as stated: a global setUser in a folder that is no repository, whose
\* write command succeeded, returns the user, and the stored users are the
\* previous ones with the user appended if it was absent.
C5_AsStated ==
  \A t \in Tasks :
    (IsSet(t) /\ Done(t) /\ frame[t].global /\ workspace /\ ~isRepo
       /\ StatusOf(t, "write") = "ok") =>
      /\ frame[t].ret = frame[t].user
      /\ users = Registered(frame[t].before, frame[t].user)

\* C5, amended. Global bypasses the repository check: a global setUser in a
\* folder that is no repository, whose write command succeeded and whose
\* save (needed when the user was absent) did not fail, returns the user,
\* and the stored users are the previous ones with the user appended at the
\* end if it was absent; the probe reporting false does not keep a global
\* setUser from issuing the write command.
C5_GlobalBypass ==
  \A t \in Tasks :
    /\ (IsSet(t) /\ frame[t].global /\ StatusOf(t, "rev-parse") = "err") =>
         Issued(t, "write")
    /\ (IsSet(t) /\ Done(t) /\ frame[t].global /\ workspace /\ ~isRepo
          /\ StatusOf(t, "write") = "ok" /\ StatusOf(t, "update") # "err") =>
         /\ frame[t].ret = frame[t].user
         /\ users = Registered(frame[t].before, frame[t].user)

\* Scenario 2: the store was [Alice], Bob was set globally outside a
\* repository, and the store is [Alice, Bob].
C5_Witness ==
  \E t \in Tasks :
    /\ IsSet(t) /\ Done(t) /\ frame[t].global /\ workspace /\ ~isRepo
    /\ StatusOf(t, "rev-parse") = "err"
    /\ frame[t].before = <<Alice>>
    /\ frame[t].ret = Bob
    /\ users = <<Alice, Bob>>

\* C6. Probe resilience: when the read command fails, getCurrentUser returns
\* the empty user and does not reject.
C6_ProbeResilience ==
  \A t \in Tasks :
    (IsGet(t) /\ Done(t) /\ StatusOf(t, "read") = "err") =>
      /\ frame[t].outcome = "returned"
      /\ frame[t].ret = EmptyUser

\* C7. Idempotence of registration: a call that registers a user already
\* stored leaves the stored sequence as it was and calls no update.
C7_Idempotence ==
  \A t \in Tasks :
    (Done(t) /\ Registers(t) /\ Identity(t) \in Range(frame[t].before)) =>
      /\ users = frame[t].before
      /\ ~Issued(t, "update")
      /\ frame[t].ret = Identity(t)

\* A setUser applied a user that was stored already, second of two.
C7_Witness ==
  \E t \in Tasks :
    /\ Done(t) /\ IsSet(t) /\ StatusOf(t, "write") = "ok"
    /\ Len(frame[t].before) = 2
    /\ frame[t].before[2] = frame[t].user

\* C8. Apply failure is whole-operation: when the write command fails, at
\* either half, setUser shows one error, returns nothing and leaves the
\* stored users untouched, calling no update.
C8_ApplyFailure ==
  \A t \in Tasks :
    (IsSet(t) /\ StatusOf(t, "write") \in {"err-name", "err-email"}) =>
      /\ Done(t)
      /\ frame[t].outcome = "returned"
      /\ frame[t].ret = NoUser
      /\ ~Issued(t, "update")
      /\ users = frame[t].before
      /\ frame[t].notices = <<"Error setting current user">>

\* The write command failed at user.email after it had changed the global
\* user.name, for a user that is not stored.
C8_Witness ==
  \E t \in Tasks :
    /\ IsSet(t) /\ StatusOf(t, "write") = "err-email" /\ frame[t].global
    /\ gitGlobal.name = frame[t].user.name
    /\ gitGlobal.email # frame[t].user.email
    /\ frame[t].user \notin Range(users)

\* C9. Error containment: no call of getCurrentUser or setUser ends by
\* rejecting, and a call in which a command or the save failed has shown a
\* message.
C9_ErrorContainment ==
  \A t \in Tasks :
    /\ frame[t].outcome # "rejected"
    /\ (Done(t) /\ \E i \in 1..Len(frame[t].calls) :
                     frame[t].calls[i].cmd # "rev-parse"
                       /\ frame[t].calls[i].status \notin {"ok", "running"})
         => frame[t].notices # <<>>

\* C10. Malformed probe output: when the read command exits 0 and its
\* trimmed output has fewer than two lines, getCurrentUser yields the empty
\* user, and no user with a missing field is returned or stored.
C10_MalformedProbe ==
  /\ \A t \in Tasks :
       (IsGet(t) /\ StatusOf(t, "read") = "ok"
          /\ Len(Split(frame[t].result, NL)) < 2) =>
         frame[t].currentUser = EmptyUser
  /\ \A t \in Tasks : frame[t].ret.email = UNDEF => frame[t].ret = NoUser
  /\ \A i \in 1..Len(users) : users[i].email # UNDEF

\* a is an initial part of b.
IsPrefix(a, b) == Len(a) <= Len(b) /\ SubSeq(b, 1, Len(a)) = a

\* C11. Append-only store under interleaving: every new value of the stored
\* users list is the previous value with zero or more entries appended.
C11_AppendOnly == [][IsPrefix(users, users')]_vars

\* The order in which setUser issues its commands and its save.
SetUserOrder == <<"rev-parse", "write", "update">>

\* C12. Step ordering within one setUser: nothing is issued without a
\* workspace folder; the probe, the write command and the save are issued
\* in that order, each at most once; one is started only when the one
\* before it has completed, the save only when the write command succeeded;
\* and a failed write or save ends the call.
C12_StepOrdering ==
  \A t \in Tasks :
    IsSet(t) =>
      LET calls == frame[t].calls
      IN  /\ Len(calls) <= Len(SetUserOrder)
          /\ \A i \in 1..Len(calls) : calls[i].cmd = SetUserOrder[i]
          /\ \A i \in 1..Len(calls) :
               i < Len(calls) => calls[i].status # "running"
          /\ calls # <<>> => workspace
          /\ Issued(t, "update") => StatusOf(t, "write") = "ok"
          /\ frame[t].usersList # <<>> => StatusOf(t, "write") = "ok"
          /\ (StatusOf(t, "write") \in {"err-name", "err-email"}
                \/ StatusOf(t, "update") = "err") =>
               /\ Done(t)
               /\ calls[Len(calls)].status \notin {"ok", "running"}

\* A setUser ran its three steps, the probe having reported false.
C12_Witness ==
  \E t \in Tasks :
    /\ IsSet(t) /\ Done(t)
    /\ Len(frame[t].calls) = 3
    /\ StatusOf(t, "rev-parse") = "err"
    /\ StatusOf(t, "update") = "ok"

\* C13 as stated: after a getCurrentUser whose read command failed, the
\* empty user is stored exactly once.
C13_AsStated ==
  \A t \in Tasks :
    (IsGet(t) /\ Done(t) /\ StatusOf(t, "read") = "err") =>
      Count(users, EmptyUser) = 1

\* C13, amended. Empty identity registered once: after a getCurrentUser
\* whose read command failed and whose save, where one was needed, did not
\* fail, the empty user is stored exactly once, appended at the end if it
\* was absent; it is never stored twice.
C13_EmptyUserOnce ==
  /\ Count(users, EmptyUser) <= 1
  /\ \A t \in Tasks :
       (IsGet(t) /\ Done(t) /\ StatusOf(t, "read") = "err"
          /\ StatusOf(t, "update") # "err") =>
         /\ Count(users, EmptyUser) = 1
         /\ users = Registered(frame[t].before, EmptyUser)
         /\ frame[t].ret = EmptyUser

\* A third failed getCurrentUser ended with the empty user stored, as it was
\* before the call.
C13_Witness ==
  \E t \in Tasks :
    /\ IsGet(t) /\ Done(t) /\ StatusOf(t, "read") = "err"
    /\ started >= 3
    /\ EmptyUser \in Range(frame[t].before)
    /\ Count(users, EmptyUser) = 1

TwoLines(cfg) ==
  /\ cfg.name \notin {UNSET, <<>>}
  /\ cfg.email \notin {UNSET, <<>>}

WriteSucceeds(t) ==
  /\ frame[t].pc = "write"
  /\ frame'[t].pc # "write"
  /\ StatusOf(t, "write")' = "ok"

\* C15. Scope frame: the step in which a global setUser's write command
\* succeeds sets the global user.name and user.email to the user and leaves
\* the repository's configuration as it was; that of a local setUser sets
\* the repository's values and leaves the global ones; and no step but the
\* write command's changes either configuration.
C15_ScopeFrame ==
  [][\A t \in Tasks :
       /\ (WriteSucceeds(t) /\ frame[t].global) =>
            /\ gitGlobal' = [name |-> frame[t].user.name,
                             email |-> frame[t].user.email]
            /\ gitLocal' = gitLocal
       /\ (WriteSucceeds(t) /\ ~frame[t].global) =>
            /\ gitLocal' = [name |-> frame[t].user.name,
                            email |-> frame[t].user.email]
            /\ gitGlobal' = gitGlobal
       /\ (frame[t].pc # "write" /\ frame'[t].pc # "idle") =>
            /\ gitLocal' = gitLocal
            /\ gitGlobal' = gitGlobal]_vars

\* A global setUser has returned its user while the repository holds another
\* one, set by an earlier local setUser.
C15_Witness ==
  \E t \in Tasks :
    /\ IsSet(t) /\ Done(t) /\ frame[t].ret = frame[t].user
    /\ frame[t].global
    /\ gitGlobal = frame[t].user
    /\ gitLocal \notin {NoConfig, frame[t].user}
    /\ TwoLines(gitLocal)

\* C16. Apply-then-resolve round trip: once setUser has returned a user (one
\* with a name and an email), a getCurrentUser that follows it, and whose
\* read command succeeds, finds that user.
C16_RoundTrip ==
  \A t \in Tasks :
    (IsGet(t) /\ StatusOf(t, "read") = "ok"
       /\ applied # NoUser /\ applied.name # <<>> /\ applied.email # <<>>) =>
      frame[t].currentUser = applied

\* The configuration a setUser with this scope writes to.
Target(global) == IF global THEN gitGlobal ELSE gitLocal

\* C17. Success implies both effects: setUser returns a user only if it is
\* the one it was given, the write command succeeded (the chosen
\* configuration holds the user) and the user is stored when it returns; in
\* every failing outcome (no workspace folder, repository check, write
\* failure, failed save) it returns nothing, whatever the write command has
\* already changed.
C17_SuccessImpliesBoth ==
  \A t \in Tasks :
    IsSet(t) =>
      /\ frame[t].ret # NoUser =>
           /\ Done(t)
           /\ frame[t].ret = frame[t].user
           /\ StatusOf(t, "write") = "ok"
           /\ StatusOf(t, "update") \in {"none", "ok"}
           /\ Target(frame[t].global) = frame[t].user
           /\ Count(users, frame[t].user) = 1
           /\ frame[t].notices = <<>>
      /\ (\/ ~workspace
          \/ (StatusOf(t, "rev-parse") = "err" /\ ~frame[t].global)
          \/ StatusOf(t, "write") \in {"err-name", "err-email"}
          \/ StatusOf(t, "update") = "err") =>
           /\ Done(t)
           /\ frame[t].ret = NoUser
           /\ applied = NoUser
           /\ Len(frame[t].notices) = 1

\* A setUser returned nothing because its save failed, the global identity
\* being already the new user, who is not stored.
C17_Witness ==
  \E t \in Tasks :
    /\ IsSet(t) /\ Done(t) /\ frame[t].global
    /\ StatusOf(t, "update") = "err"
    /\ frame[t].ret = NoUser
    /\ gitGlobal = frame[t].user
    /\ frame[t].user \notin Range(users)
    /\ frame[t].before # <<>>

=============================================================================
